---- MODULE Spec2Model ----
(***************************************************************************)
(* Model of src/src/sessionization.py: the SessionSet / Session engine     *)
(* that folds a stream of (ip, datetime) rows into per-ip sessions, closes *)
(* a session once the stream's time is more than inactivity_period seconds *)
(* past the session's last request, and flushes the rest when the          *)
(* SessionSet is deleted at the end of Sessionization.run.                 *)
(*                                                                         *)
(* A datetime is an integer number of seconds since midnight of the first  *)
(* day of the log; a timedelta is the signed integer difference of two     *)
(* datetimes.  timedelta.total_seconds() is that integer, timedelta.seconds*)
(* is its seconds-of-day component (Python normalises a timedelta to       *)
(* days, 0 <= seconds < 86400).                                            *)
(***************************************************************************)
EXTENDS Integers, Sequences, FiniteSets, TLC

\* ------------------------------------------------------------------ bounds
\* Rows read from the log in a run of Spec (rows in any time order).
MaxRows == 4
\* Rows read from the log in a run of PairSpec (rows sorted by time).
MaxSortedRows == 4
\* Largest small inactivity period tried (seconds).
MaxThreshold == 2

\* Seconds in a day: the modulus of timedelta.seconds.
SecondsPerDay == 86400

\* The ip addresses that occur in the log.
Clients == {"A", "B"}
\* The request times that occur in the log: the first seconds of two days.
Times == {d * SecondsPerDay + s : d \in 0..1, s \in 0..2}
\* The inactivity periods tried: int(fh.read().strip()) accepts any integer,
\* negative and zero included.
Thresholds == (-1..MaxThreshold) \cup {SecondsPerDay}

\* Python's None, and a value that is not None.
None == <<>>
Some(v) == <<v>>

VARIABLES
    session_set,   \* run -> the SessionSet object of that run (Sessionization.run's local)
    log,           \* the rows the stream has yielded so far, in order
    pc,            \* "open": run has built the stream and its SessionSet, no line read yet;
                   \* "run": inside the for loop of run; "done": the SessionSet was deleted
                   \* after the loop ended; "raised": an exception is leaving run, the
                   \* SessionSet still alive in its frame; "raised_del": that SessionSet
                   \* was deleted; "config_error": Sessionization.__init__ raised
    header,        \* the first line of the log file, stripped and split at ','
    lines          \* the data lines read from the log file so far, each split at ','

vars == <<session_set, log, pc, header, lines>>

\* ------------------------------------------------------------- datetime
\* timedelta.total_seconds()
total_seconds(td) == td

\* timedelta.seconds: the seconds-of-day component, days dropped
seconds(td) == td % SecondsPerDay

\* Session._format_datetime: '%d-%02d-%02d %02d:%02d:%02d' of year, month, day,
\* hour, minute, second.  The calendar date is rendered as the day number.
format_datetime(s) ==
    << s \div SecondsPerDay,
       (s % SecondsPerDay) \div 3600,
       (s % 3600) \div 60,
       s % 60 >>

\* ------------------------------------------------------ the log file's cells
\* A cell of a line: kind "ip", "date" (n: the day), "time" (n: the second of
\* the day) or "text" (anything else); s is the cell's text where it matters.
IpCell(ip)   == [kind |-> "ip",   s |-> ip, n |-> 0]
DateCell(d)  == [kind |-> "date", s |-> "", n |-> d]
TimeCell(t)  == [kind |-> "time", s |-> "", n |-> t]
TextCell(x)  == [kind |-> "text", s |-> x,  n |-> 0]

\* self._extracted_fields
extracted_fields == <<"ip", "date", "time">>

\* the line of a request of ip at datetime dt in a file whose header is h: each
\* column holds what its header names, any other column some text
LineFor(h, ip, dt) ==
    [ k \in 1..Len(h) |->
        CASE h[k] = "ip"   -> IpCell(ip)
          [] h[k] = "date" -> DateCell(dt \div SecondsPerDay)
          [] h[k] = "time" -> TimeCell(dt % SecondsPerDay)
          [] OTHER         -> TextCell("x") ]

\* the header of the runs of Spec, FairSortedSpec and PairSpec
StandardHeader == <<"ip", "date", "time">>

\* ---------------------------------------------------------------- Session
\* Session.__init__ (sid is the identity of the constructed object)
Session_init(inactivity_period, ip, time_first, sid) ==
    [ inactivity_period |-> inactivity_period,
      ip                |-> ip,
      time_first        |-> time_first,
      time_last         |-> time_first,
      duration          |-> 1,
      document_number   |-> 1,
      sid               |-> sid ]

\* Session.__str__
Session_str(self) ==
    << self.ip, format_datetime(self.time_first), format_datetime(self.time_last),
       self.duration, self.document_number >>

\* Session.check_session with >= in place of >
check_session_ge(self, duration) ==
    IF total_seconds(duration) >= self.inactivity_period
    THEN Some(Session_str(self))
    ELSE None

\* Session.check_session with the comparison turned around
check_session_lt(self, duration) ==
    IF total_seconds(duration) < self.inactivity_period
    THEN Some(Session_str(self))
    ELSE None

\* Session.check_session
check_session(self, duration) ==
    IF total_seconds(duration) > self.inactivity_period
    THEN Some(Session_str(self))
    ELSE None

\* Session.update_session that forgets to count the document
update_session_nocount(self, current_time) ==
    [ self EXCEPT !.time_last = current_time,
                  !.duration = seconds(current_time - self.time_first) + 1 ]

\* Session.update_session
update_session(self, current_time) ==
    [ self EXCEPT !.document_number = @ + 1,
                  !.time_last = current_time,
                  !.duration = seconds(current_time - self.time_first) + 1 ]

\* ------------------------------------------------------------- SessionSet
\* SessionSet.__init__
SessionSet_init(inactivity_period) ==
    [ inactivity_period |-> inactivity_period,
      current_time      |-> None,
      sessions          |-> <<>>,
      index             |-> [ip \in {} |-> 0],
      output_file_fh    |-> <<>>,     \* the strings written to the output file
      closed            |-> <<>>,     \* the Session objects whose string was written
      created           |-> 0 ]       \* the number of Session objects constructed

\* the strings of a list of sessions, in list order
RECURSIVE strs(_)
strs(sessions) ==
    IF sessions = <<>> THEN <<>>
    ELSE <<Session_str(Head(sessions))>> \o strs(Tail(sessions))

\* SessionSet.__del__ that closes the file without writing the active sessions
SessionSet_del_noflush(self) ==
    [ self EXCEPT !.index = [ip \in {} |-> 0],
                  !.sessions = <<>> ]

\* SessionSet.__del__
SessionSet_del(self) ==
    [ self EXCEPT !.output_file_fh = @ \o strs(self.sessions),
                  !.closed = @ \o self.sessions,
                  !.index = [ip \in {} |-> 0],
                  !.sessions = <<>> ]

\* update_sessions, the loop of lines 205-211: to_del, the positions (1-based) of
\* the sessions that check_session closes
to_del(self) ==
    { i \in 1..Len(self.sessions) :
        check_session(self.sessions[i],
                      self.current_time[1] - self.sessions[i].time_last) # None }

\* [v for i, v in enumerate(sessions) if i not in to_del]
RECURSIVE without(_, _, _)
without(sessions, del, i) ==
    IF i > Len(sessions) THEN <<>>
    ELSE (IF i \in del THEN <<>> ELSE <<sessions[i]>>) \o without(sessions, del, i + 1)

\* the sessions to write taken from the end of the list first
RECURSIVE only_reversed(_, _, _)
only_reversed(sessions, del, i) ==
    IF i > Len(sessions) THEN <<>>
    ELSE only_reversed(sessions, del, i + 1) \o (IF i \in del THEN <<sessions[i]>> ELSE <<>>)

\* [v for i, v in enumerate(sessions) if i in to_del]: the sessions written, in loop order
RECURSIVE only(_, _, _)
only(sessions, del, i) ==
    IF i > Len(sessions) THEN <<>>
    ELSE (IF i \in del THEN <<sessions[i]>> ELSE <<>>) \o only(sessions, del, i + 1)

\* the index rebuilt with positions counted from 1
reindex_from_one(sessions) ==
    [ ip \in { sessions[i].ip : i \in 1..Len(sessions) } |->
        CHOOSE p \in 1..Len(sessions) :
            /\ sessions[p].ip = ip
            /\ \A q \in 1..Len(sessions) : sessions[q].ip = ip => q <= p ]

\* {v.ip: i for i, v in enumerate(sessions)}: positions are 0-based, a later
\* session of the same ip overwrites an earlier one
reindex(sessions) ==
    [ ip \in { sessions[i].ip : i \in 1..Len(sessions) } |->
        CHOOSE p \in 0..(Len(sessions) - 1) :
            /\ sessions[p + 1].ip = ip
            /\ \A q \in 0..(Len(sessions) - 1) : sessions[q + 1].ip = ip => q <= p ]

\* SessionSet.update_sessions
update_sessions(self) ==
    LET del == to_del(self)
        kept == without(self.sessions, del, 1)
    IN  [ self EXCEPT
            !.output_file_fh = @ \o strs(only(self.sessions, del, 1)),
            !.closed = @ \o only(self.sessions, del, 1),
            !.sessions = kept,
            !.index = reindex(kept) ]

\* line 197 without the assignment: the new session is not added to the index
index_put_skip(index, ip, pos) == index

\* self.index[row['ip']] = len(self.sessions) - 1
index_put(index, ip, pos) ==
    [ k \in (DOMAIN index) \cup {ip} |-> IF k = ip THEN pos ELSE index[k] ]

\* SessionSet.process_row without the assignment of line 185: current_time
\* stays at the timestamp of the first row
process_row_keep_time(self, row) ==
    LET s1 == IF self.current_time = None
              THEN [self EXCEPT !.current_time = Some(row.dt)]
              ELSE self
        s2 == IF row.dt # s1.current_time[1] THEN update_sessions(s1) ELSE s1
    IN  IF row.ip \in DOMAIN s2.index
        THEN [ s2 EXCEPT !.sessions[s2.index[row.ip] + 1] = update_session(@, row.dt) ]
        ELSE [ s2 EXCEPT !.sessions = Append(@, Session_init(s2.inactivity_period, row.ip,
                                                             row.dt, s2.created + 1)),
                         !.index = index_put(s2.index, row.ip, Len(s2.sessions)),
                         !.created = @ + 1 ]

\* SessionSet.process_row with the sweep run for every row, whether or not its
\* timestamp differs from current_time
process_row_always_sweep(self, row) ==
    LET s2 == update_sessions([self EXCEPT !.current_time = Some(row.dt)])
    IN  IF row.ip \in DOMAIN s2.index
        THEN [ s2 EXCEPT !.sessions[s2.index[row.ip] + 1] = update_session(@, row.dt) ]
        ELSE [ s2 EXCEPT !.sessions = Append(@, Session_init(s2.inactivity_period, row.ip,
                                                             row.dt, s2.created + 1)),
                         !.index = index_put(s2.index, row.ip, Len(s2.sessions)),
                         !.created = @ + 1 ]

\* SessionSet.process_row with the row applied to its client's session before
\* the sweep instead of after it
process_row_update_first(self, row) ==
    LET s1 == IF row.ip \in DOMAIN self.index
              THEN [ self EXCEPT !.sessions[self.index[row.ip] + 1] = update_session(@, row.dt) ]
              ELSE [ self EXCEPT !.sessions = Append(@, Session_init(self.inactivity_period, row.ip,
                                                                     row.dt, self.created + 1)),
                                 !.index = index_put(self.index, row.ip, Len(self.sessions)),
                                 !.created = @ + 1 ]
    IN  IF self.current_time # None /\ row.dt # self.current_time[1]
        THEN update_sessions([s1 EXCEPT !.current_time = Some(row.dt)])
        ELSE [s1 EXCEPT !.current_time = Some(row.dt)]

\* SessionSet.process_row
process_row(self, row) ==
    LET \* lines 180-181
        s1 == IF self.current_time = None
              THEN [self EXCEPT !.current_time = Some(row.dt)]
              ELSE self
        \* lines 184-187
        s2 == IF row.dt # s1.current_time[1]
              THEN update_sessions([s1 EXCEPT !.current_time = Some(row.dt)])
              ELSE s1
    IN  \* lines 190-197
        IF row.ip \in DOMAIN s2.index
        THEN LET ind == s2.index[row.ip]
             IN  [ s2 EXCEPT !.sessions[ind + 1] = update_session(@, row.dt) ]
        ELSE LET session == Session_init(s2.inactivity_period, row.ip, row.dt,
                                         s2.created + 1)
                 sessions == Append(s2.sessions, session)
             IN  [ s2 EXCEPT !.sessions = sessions,
                             !.index = index_put(s2.index, row.ip, Len(sessions) - 1),
                             !.created = @ + 1 ]

\* ------------------------------------------------- Sessionization.cleanse
\* the assert of line 124 that accepts any header of at least three columns
header_ok_len(h) == Len(h) >= Len(extracted_fields)

\* the assert of line 124 that wants the header to be exactly the three fields
header_ok_exact(h) == h = extracted_fields

\* the assert of line 124: every extracted field is in the header
header_ok(h) ==
    Len(extracted_fields)
        = Cardinality({ h[k] : k \in 1..Len(h) } \cap { extracted_fields[k] : k \in 1..Len(extracted_fields) })

\* lines 127-129: header_map[field] = self._extracted_fields.index(field), 0-based
header_map(h) ==
    [ field \in { extracted_fields[k] : k \in 1..Len(extracted_fields) } |->
        (CHOOSE k \in 1..Len(extracted_fields) : extracted_fields[k] = field) - 1 ]

\* Sessionization.clean_row: err is the exception raised ("" for none), ip and
\* dt the fields of row_data.  row[header_map[field]] raises IndexError on a
\* short line; _reDT matches a date followed by a time only, and .groups() of
\* no match raises AttributeError.
clean_row(row, hmap) ==
    IF \E field \in DOMAIN hmap : hmap[field] + 1 > Len(row)
    THEN [err |-> "IndexError", ip |-> "", dt |-> 0]
    ELSE LET ip   == row[hmap["ip"] + 1]
             date == row[hmap["date"] + 1]
             time == row[hmap["time"] + 1]
         IN  IF date.kind = "date" /\ time.kind = "time"
             THEN [err |-> "", ip |-> ip.s, dt |-> date.n * SecondsPerDay + time.n]
             ELSE [err |-> "AttributeError", ip |-> "", dt |-> 0]

\* ------------------------------------------------------ Sessionization.run
Runs == DOMAIN session_set

\* one iteration of `for row in stream: session_set.process_row(row)` on the
\* line raw: cleanse yields clean_row of it, or clean_row raises and the
\* exception leaves run
LineStep(raw) ==
    LET res == clean_row(raw, header_map(header))
        row == [ip |-> res.ip, dt |-> res.dt]
    IN  /\ pc = "run"
        /\ lines' = Append(lines, raw)
        /\ IF res.err = ""
           THEN /\ session_set' = [r \in Runs |-> process_row(session_set[r], row)]
                /\ log' = Append(log, row)
                /\ UNCHANGED pc
           ELSE /\ pc' = "raised"
                /\ UNCHANGED <<session_set, log>>
        /\ UNCHANGED header

\* one iteration on the line of a request of ip at dt
RowStep(ip, dt) == LineStep(LineFor(header, ip, dt))

\* the stream yields a row, whatever its time
Row(ip, dt) ==
    /\ Len(log) < MaxRows
    /\ RowStep(ip, dt)

\* the stream yields a row whose time is not before the previous row's
SortedRow(ip, dt) ==
    /\ Len(log) < MaxSortedRows
    /\ (log # <<>> => log[Len(log)].dt <= dt)
    /\ RowStep(ip, dt)

\* the stream is exhausted: run returns and its SessionSet is deleted
EndOfStream ==
    /\ pc = "run"
    /\ session_set' = [r \in Runs |-> SessionSet_del(session_set[r])]
    /\ pc' = "done"
    /\ UNCHANGED <<log, header, lines>>

\* one run, with any inactivity period
Init ==
    /\ \E p \in Thresholds : session_set = [r \in {1} |-> SessionSet_init(p)]
    /\ log = <<>>
    /\ pc = "run"
    /\ header = StandardHeader
    /\ lines = <<>>

Next ==
    \/ \E ip \in Clients, dt \in Times : Row(ip, dt)
    \/ EndOfStream

Spec == Init /\ [][Next]_vars

\* a run over a log sorted by time
SortedNext ==
    \/ \E ip \in Clients, dt \in Times : SortedRow(ip, dt)
    \/ EndOfStream

\* a run over a sorted log that goes on until the stream is exhausted: the for
\* loop of run takes its next step as long as there is one
FairSortedSpec == Init /\ [][SortedNext]_vars /\ WF_vars(SortedNext)

\* two runs over the same sorted log (tests.py runs one log under several
\* inactivity periods), run 1 with the smaller period
PairInit ==
    /\ \E p1 \in Thresholds, p2 \in Thresholds :
          /\ p1 <= p2
          /\ session_set = [r \in {1, 2} |->
                               SessionSet_init(IF r = 1 THEN p1 ELSE p2)]
    /\ log = <<>>
    /\ pc = "run"
    /\ header = StandardHeader
    /\ lines = <<>>

PairSpec == PairInit /\ [][SortedNext]_vars

\* ------------------------------------------------- runs over the times of
\* the example: requests at 10:00:00, 10:00:02, 10:00:05 and 10:00:20 of the
\* first day, inactivity periods around 10
ExampleTimes == { 10 * 3600, 10 * 3600 + 2, 10 * 3600 + 5, 10 * 3600 + 20 }
ExampleThresholds == {5, 10, 20}

ExampleInit ==
    /\ \E p \in ExampleThresholds : session_set = [r \in {1} |-> SessionSet_init(p)]
    /\ log = <<>>
    /\ pc = "run"
    /\ header = StandardHeader
    /\ lines = <<>>

ExampleNext ==
    \/ \E ip \in Clients, dt \in ExampleTimes : SortedRow(ip, dt)
    \/ EndOfStream

ExampleSpec == ExampleInit /\ [][ExampleNext]_vars

\* ------------------------------------------------- a run from the files
\* The headers tried: the three fields, with another column after or before
\* them, in another order, a field missing, and an empty first line
\* ('\n'.strip().split(',') is ['']).
Headers ==
    { <<"ip", "date", "time">>,
      <<"ip", "date", "time", "zone">>,
      <<"zone", "ip", "date", "time">>,
      <<"time", "date", "ip">>,
      <<"zone", "date", "time", "ip">>,
      <<"ip", "date">>,
      <<"ip", "date", "zone">>,
      <<"">> }

\* Data lines that are not the line of a request: a line cut short, a line
\* whose date is no date, an empty line.
BadLines ==
    { <<IpCell("A"), DateCell(0)>>,
      <<IpCell("A"), TextCell("bad"), TimeCell(0)>>,
      <<TextCell("")>> }

\* The contents of the inactivity period file: an integer, or text that is none.
PeriodFiles ==
    { [kind |-> "int", n |-> p] : p \in Thresholds } \cup { [kind |-> "text", n |-> 0] }

\* int(fh.read().strip()) of line 76: the integer, or None where int raises ValueError
int_of(file) == IF file.kind = "int" THEN Some(file.n) ELSE None

\* Sessionization.__init__ on a period file, then run up to line 92: the
\* stream is built (no line read yet) and the SessionSet constructed
FileInit ==
    /\ \E file \in PeriodFiles :
          IF int_of(file) = None
          THEN /\ pc = "config_error"
               /\ session_set = <<>>
          ELSE /\ pc = "open"
               /\ session_set = [r \in {1} |-> SessionSet_init(int_of(file)[1])]
    /\ header \in Headers
    /\ log = <<>>
    /\ lines = <<>>

\* the first next() on the stream: cleanse reads the header and asserts it
ReadHeader ==
    /\ pc = "open"
    /\ pc' = IF header_ok(header) THEN "run" ELSE "raised"
    /\ UNCHANGED <<session_set, log, header, lines>>

\* the stream reads the line of a request, not before the previous request
FileRow(ip, dt) ==
    /\ Len(lines) < MaxSortedRows
    /\ (log # <<>> => log[Len(log)].dt <= dt)
    /\ RowStep(ip, dt)

\* the stream reads a line that is not the line of a request
FileBadLine(raw) ==
    /\ Len(lines) < MaxSortedRows
    /\ LineStep(raw)

\* the exception has left run and its traceback is dropped: the SessionSet of
\* run's frame is deleted
Finalize ==
    /\ pc = "raised"
    /\ session_set' = [r \in Runs |-> SessionSet_del(session_set[r])]
    /\ pc' = "raised_del"
    /\ UNCHANGED <<log, header, lines>>

FileNext ==
    \/ ReadHeader
    \/ \E ip \in Clients, dt \in Times : FileRow(ip, dt)
    \/ \E raw \in BadLines : FileBadLine(raw)
    \/ EndOfStream
    \/ Finalize

FileSpec == FileInit /\ [][FileNext]_vars

\* ------------------------------------------------------------ vocabulary
\* the elements of a sequence
Range(seq) == { seq[i] : i \in 1..Len(seq) }

\* the rows of the log are in non-decreasing time order
Sorted(rows) == \A i \in 1..Len(rows), j \in 1..Len(rows) : i <= j => rows[i].dt <= rows[j].dt

\* the sum of the document counts of a sequence of output records (fifth field)
RECURSIVE SumRecords(_)
SumRecords(recs) == IF recs = <<>> THEN 0 ELSE Head(recs)[5] + SumRecords(Tail(recs))

\* the sum of the document counts of a sequence of sessions
RECURSIVE SumSessions(_)
SumSessions(ss) == IF ss = <<>> THEN 0 ELSE Head(ss).document_number + SumSessions(Tail(ss))

\* the step just taken processed a row (the last row of log')
RowTaken == pc = "run" /\ pc' = "run" /\ Len(log') = Len(log) + 1
LastRow == log'[Len(log')]

\* the step just taken ran update_sessions in run r (lines 185-187)
SweepRan(r) ==
    /\ RowTaken
    /\ session_set[r].current_time # None
    /\ session_set[r].current_time[1] # LastRow.dt

\* the sessions a step appended to closed, and the strings it wrote
NewClosed(r) ==
    SubSeq(session_set'[r].closed, Len(session_set[r].closed) + 1, Len(session_set'[r].closed))
NewOutput(r) ==
    SubSeq(session_set'[r].output_file_fh, Len(session_set[r].output_file_fh) + 1,
           Len(session_set'[r].output_file_fh))

\* ------------------------------------------------------------------ C1
\* C1: in every reachable state, whatever the rows were, no two sessions of
\* the active list of a SessionSet have the same ip.
C1_SingleActiveSessionPerClient ==
    \A r \in Runs :
        \A i, j \in 1..Len(session_set[r].sessions) :
            session_set[r].sessions[i].ip = session_set[r].sessions[j].ip => i = j

\* every client has an active session, and one of them is the second session
\* of its client (the first was closed) and has been updated
C1_Witness ==
    /\ pc = "run"
    /\ Sorted(log)
    /\ session_set[1].inactivity_period > 0
    /\ { s.ip : s \in Range(session_set[1].sessions) } = Clients
    /\ \E s \in Range(session_set[1].sessions), c \in Range(session_set[1].closed) :
          s.ip = c.ip /\ s.document_number >= 2

\* ------------------------------------------------------------------ C2
\* C2: in every reachable state the document counts of the records written so
\* far plus the document counts of the active sessions add up to the number of
\* rows processed; after the SessionSet is deleted no session is active, so the
\* records alone add up to the number of rows.
C2_TotalConservation ==
    \A r \in Runs :
        /\ SumRecords(session_set[r].output_file_fh)
             + SumSessions(session_set[r].sessions) = Len(log)
        /\ pc = "done" =>
             /\ session_set[r].sessions = <<>>
             /\ SumRecords(session_set[r].output_file_fh) = Len(log)

\* a finished run of at least three rows whose output has a record of several
\* documents written by a sweep and another record
C2_Witness ==
    /\ pc = "done"
    /\ Sorted(log)
    /\ session_set[1].inactivity_period > 0
    /\ Len(log) >= 3
    /\ Len(session_set[1].output_file_fh) >= 2
    /\ session_set[1].output_file_fh[1][5] >= 2
    /\ session_set[1].current_time[1] - session_set[1].closed[1].time_last
         > session_set[1].inactivity_period

\* ------------------------------------------------------------------ C3
\* C3: every step that runs update_sessions with the new row's time w as
\* current_time writes and removes exactly the sessions with
\* (w - time_last) > inactivity_period, in list order; a session whose gap
\* equals the period stays; every session that stays keeps its place among the
\* survivors and its fields, except that the row's own client's session is then
\* updated by the row.
C3_SweepStep(r) ==
    LET old  == session_set[r].sessions
        T    == session_set[r].inactivity_period
        w    == LastRow.dt
        gone == SelectSeq(old, LAMBDA s : w - s.time_last > T)
        kept == SelectSeq(old, LAMBDA s : ~(w - s.time_last > T))
        new  == session_set'[r].sessions
    IN  /\ NewClosed(r) = gone
        /\ Len(NewOutput(r)) = Len(gone)
        /\ \A k \in 1..Len(gone) :
              NewOutput(r)[k] = << gone[k].ip, format_datetime(gone[k].time_first),
                                  format_datetime(gone[k].time_last), gone[k].duration,
                                  gone[k].document_number >>
        /\ \A s \in Range(old) : w - s.time_last = T => s \in Range(kept)
        /\ Len(new) >= Len(kept)
        /\ \A k \in 1..Len(kept) :
              IF kept[k].ip = LastRow.ip
              THEN /\ new[k].sid = kept[k].sid
                   /\ new[k].time_first = kept[k].time_first
                   /\ new[k].time_last = w
                   /\ new[k].document_number = kept[k].document_number + 1
              ELSE new[k] = kept[k]
        /\ \A s \in Range(new), c \in Range(gone) : s.sid # c.sid

C3_SweepClosesExactlyExpired ==
    [][ \A r \in Runs : SweepRan(r) => C3_SweepStep(r) ]_vars

\* a sweep has just closed a session and kept another one whose gap
\* is exactly the (positive) inactivity period
C3_Witness ==
    /\ pc = "run"
    /\ Len(log) >= 2
    /\ session_set[1].inactivity_period > 0
    /\ \E c \in Range(session_set[1].closed) :
          /\ session_set[1].current_time[1] - c.time_last > session_set[1].inactivity_period
          /\ log[Len(log)].dt - log[Len(log) - 1].dt > 0
          /\ c.time_last <= log[Len(log) - 1].dt
          /\ log[Len(log) - 1].dt - c.time_last <= session_set[1].inactivity_period
    /\ \E s \in Range(session_set[1].sessions) :
          session_set[1].current_time[1] - s.time_last = session_set[1].inactivity_period

\* ------------------------------------------------------------------ C4
\* what C4 says of a step of run r that processes a row of a client whose
\* active session is more than the inactivity period behind the row's time:
\* the old session is written as it was, and the client's session after the
\* step is a new object with time_first = time_last = the row's time and one
\* document
C4_Step(r) ==
    LET T == session_set[r].inactivity_period
        olds == { s \in Range(session_set[r].sessions) :
                    s.ip = LastRow.ip /\ LastRow.dt - s.time_last > T }
    IN  \A s \in olds :
          /\ s \in Range(NewClosed(r))
          /\ Session_str(s) \in Range(NewOutput(r))
          /\ \A n \in Range(session_set'[r].sessions) : n.sid # s.sid
          /\ \E n \in Range(session_set'[r].sessions) :
                /\ n.ip = LastRow.ip
                /\ n.sid = session_set[r].created + 1
                /\ n.time_first = LastRow.dt
                /\ n.time_last = LastRow.dt
                /\ n.document_number = 1

\* a closed session is never updated again: what was written stays as written
\* and no active session is a closed object
C4_ClosedIsFinal(r) ==
    /\ SubSeq(session_set'[r].closed, 1, Len(session_set[r].closed)) = session_set[r].closed
    /\ \A n \in Range(session_set'[r].sessions), c \in Range(session_set'[r].closed) :
          n.sid # c.sid

\* C4: a row of client c whose time is more than the inactivity period after
\* the time_last of c's active session makes the sweep write c's old session
\* with the time_last and document_number it had, and leaves c with a new
\* session with time_first = time_last = the row's time and document_number 1;
\* a closed session is never updated again.
C4_EvictThenRecreate ==
    [][ \A r \in Runs : (RowTaken => C4_Step(r)) /\ C4_ClosedIsFinal(r) ]_vars

\* the same for the inactivity periods that are not negative
C4_EvictThenRecreate_NonNegative ==
    [][ \A r \in Runs :
          /\ (RowTaken /\ session_set[r].inactivity_period >= 0) => C4_Step(r)
          /\ C4_ClosedIsFinal(r) ]_vars

\* ------------------------------------------------------------------ C5
\* the times of the rows of client c, in log order
RECURSIVE ClientTimes(_, _)
ClientTimes(rows, c) ==
    IF rows = <<>> THEN <<>>
    ELSE (IF Head(rows).ip = c THEN <<Head(rows).dt>> ELSE <<>>) \o ClientTimes(Tail(rows), c)

\* the times ts cut wherever two consecutive times differ by more than T:
\* one <<first, last, count>> per piece
RECURSIVE Segments(_, _, _)
Segments(ts, T, acc) ==
    IF ts = <<>> THEN acc
    ELSE LET t == Head(ts)
             n == Len(acc)
         IN  IF n > 0 /\ t - acc[n][2] <= T
             THEN Segments(Tail(ts), T, [acc EXCEPT ![n] = <<acc[n][1], t, acc[n][3] + 1>>])
             ELSE Segments(Tail(ts), T, Append(acc, <<t, t, 1>>))

\* the output records of client c, in output order
RecordsOf(out, c) == SelectSeq(out, LAMBDA rec : rec[1] = c)

\* C5: for a log sorted by time and a positive inactivity period T, the
\* records written for a client are exactly the pieces of the client's rows cut
\* wherever two consecutive rows of the client are more than T seconds apart
\* (two consecutive rows are in one record iff they are at most T apart),
\* however the rows of other clients are interleaved.
C5_SessionMembership ==
    \A r \in Runs :
        (pc = "done" /\ Sorted(log) /\ session_set[r].inactivity_period > 0) =>
            \A c \in Clients :
                LET recs == RecordsOf(session_set[r].output_file_fh, c)
                    segs == Segments(ClientTimes(log, c), session_set[r].inactivity_period, <<>>)
                IN  /\ Len(recs) = Len(segs)
                    /\ \A k \in 1..Len(segs) :
                          /\ recs[k][2] = format_datetime(segs[k][1])
                          /\ recs[k][3] = format_datetime(segs[k][2])
                          /\ recs[k][5] = segs[k][3]

\* a finished sorted run with a positive period in which a client has two
\* rows exactly the period apart with a row of the other client between them,
\* and a later row more than the period after
C5_Witness ==
    /\ pc = "done"
    /\ Sorted(log)
    /\ Len(log) = 4
    /\ session_set[1].inactivity_period > 0
    /\ log[1].ip = log[3].ip /\ log[2].ip # log[1].ip /\ log[4].ip = log[1].ip
    /\ log[3].dt - log[1].dt = session_set[1].inactivity_period
    /\ log[4].dt - log[3].dt > session_set[1].inactivity_period
    /\ Len(RecordsOf(session_set[1].output_file_fh, log[1].ip)) = 2

\* ------------------------------------------------------------------ C6
\* the state of run r once the SessionSet is deleted: nothing is active, and
\* the sessions written are the sessions constructed, each once
C6_Drained(r) ==
    /\ session_set[r].sessions = <<>>
    /\ DOMAIN session_set[r].index = {}
    /\ Len(session_set[r].closed) = session_set[r].created
    /\ { c.sid : c \in Range(session_set[r].closed) } = 1..session_set[r].created
    /\ session_set[r].output_file_fh = strs(session_set[r].closed)

\* C6: a run over a finite log ends, and when it has ended every session
\* constructed has been written exactly once, whatever its inactivity gap, and
\* no session is active.
C6_EndOfStreamDrain ==
    /\ <>(pc = "done")
    /\ [](pc = "done" => \A r \in Runs : C6_Drained(r))

\* the second half of C6 as a state predicate, for the runs over unsorted logs too
C6_DrainedWhenDone == pc = "done" => \A r \in Runs : C6_Drained(r)

\* a finished sorted run that wrote one session in a sweep and, at the end, a
\* session that was not expired
C6_Witness ==
    /\ pc = "done"
    /\ Sorted(log)
    /\ session_set[1].inactivity_period > 0
    /\ \E a \in Range(session_set[1].closed), b \in Range(session_set[1].closed) :
          /\ session_set[1].current_time[1] - a.time_last > session_set[1].inactivity_period
          /\ session_set[1].current_time[1] - b.time_last <= session_set[1].inactivity_period
          /\ b.time_last < session_set[1].current_time[1]

\* ------------------------------------------------------------------ C7
\* C7: every active session's duration is the whole number of seconds from
\* time_first to time_last plus 1, spans of a day or more included (stated for
\* logs sorted by time and positive inactivity periods).
C7_DurationFormula ==
    \A r \in Runs :
        (Sorted(log) /\ session_set[r].inactivity_period > 0) =>
            \A s \in Range(session_set[r].sessions) :
                s.duration = (s.time_last - s.time_first) + 1

\* what the code computes: the seconds-of-day component of the span plus 1
C7_DurationIsSecondsOfDay ==
    \A r \in Runs :
        \A s \in Range(session_set[r].sessions) :
            s.duration = ((s.time_last - s.time_first) % SecondsPerDay) + 1

\* ------------------------------------------------------------------ C8
\* C8: a row at or after the time_last of its client's session, updating that
\* session, never makes the session's duration smaller (stated for logs sorted
\* by time and positive inactivity periods).
C8_MonotonicDuration ==
    [][ \A r \in Runs :
          (RowTaken /\ Sorted(log') /\ session_set[r].inactivity_period > 0) =>
            \A s \in Range(session_set[r].sessions), n \in Range(session_set'[r].sessions) :
                (n.sid = s.sid /\ s.ip = LastRow.ip /\ LastRow.dt >= s.time_last)
                    => n.duration >= s.duration ]_vars

\* ------------------------------------------------------------------ C9
\* the number of records of client c in an output
CountOf(out, c) == Len(RecordsOf(out, c))

\* C9: of two runs over one log sorted by time, the run with the larger
\* inactivity period writes, for every client, no more records than the run
\* with the smaller one.
C9_ThresholdMonotonicity ==
    (pc = "done" /\ Runs = {1, 2}
       /\ session_set[1].inactivity_period <= session_set[2].inactivity_period) =>
        \A c \in Clients :
            CountOf(session_set[2].output_file_fh, c) <= CountOf(session_set[1].output_file_fh, c)

\* two finished runs with positive periods where the larger period wrote fewer
\* records for a client, and more than one
C9_Witness ==
    /\ pc = "done"
    /\ Runs = {1, 2}
    /\ 0 < session_set[1].inactivity_period
    /\ session_set[1].inactivity_period < session_set[2].inactivity_period
    /\ \E c \in Clients :
          /\ CountOf(session_set[2].output_file_fh, c) >= 2
          /\ CountOf(session_set[2].output_file_fh, c) < CountOf(session_set[1].output_file_fh, c)

\* ------------------------------------------------------------------ C10
\* inactivity period T is at least every gap between two consecutive rows of
\* one client
CoversClientGaps(T) ==
    \A c \in Clients :
        LET ts == ClientTimes(log, c)
        IN  \A k \in 1..(Len(ts) - 1) : ts[k + 1] - ts[k] <= T

\* inactivity period T is at least the time from any row to any later row
CoversLog(T) == \A i \in 1..Len(log), j \in 1..Len(log) : log[j].dt - log[i].dt <= T

\* the number of times rec occurs in an output
Occurrences(out, rec) == Cardinality({ i \in 1..Len(out) : out[i] = rec })

\* the two outputs hold the same records, each as often
SameRecords(out1, out2) ==
    /\ Len(out1) = Len(out2)
    /\ \A rec \in Range(out1) \cup Range(out2) : Occurrences(out1, rec) = Occurrences(out2, rec)

\* two finished runs over one sorted log
C10_Case ==
    /\ pc = "done"
    /\ Runs = {1, 2}

\* C10 as claimed: two runs over one sorted log whose inactivity periods are
\* both at least every gap between two consecutive rows of one client write the
\* same sequence of records (stated for positive inactivity periods).
C10_LargeThresholdsIdentical ==
    (C10_Case /\ session_set[1].inactivity_period > 0
              /\ CoversClientGaps(session_set[1].inactivity_period)
              /\ CoversClientGaps(session_set[2].inactivity_period)) =>
        session_set[1].output_file_fh = session_set[2].output_file_fh

\* C10 amended: such two runs write the same records, each as often, possibly
\* in another order; the order is the same too when both periods are at least
\* the time from any row of the log to any later row.
C10_LargeThresholdsSameRecords ==
    /\ (C10_Case /\ CoversClientGaps(session_set[1].inactivity_period)
                 /\ CoversClientGaps(session_set[2].inactivity_period)) =>
          SameRecords(session_set[1].output_file_fh, session_set[2].output_file_fh)
    /\ (C10_Case /\ CoversLog(session_set[1].inactivity_period)
                 /\ CoversLog(session_set[2].inactivity_period)) =>
          session_set[1].output_file_fh = session_set[2].output_file_fh

\* two finished runs with different positive periods that cover every client's
\* gaps, where a client has rows a positive time apart and the outputs hold the
\* same records in different orders
C10_Witness ==
    /\ C10_Case
    /\ 0 < session_set[1].inactivity_period
    /\ session_set[1].inactivity_period < session_set[2].inactivity_period
    /\ CoversClientGaps(session_set[1].inactivity_period)
    /\ \E c \in Clients : \E k \in 1..(Len(ClientTimes(log, c)) - 1) :
          ClientTimes(log, c)[k + 1] - ClientTimes(log, c)[k] = session_set[1].inactivity_period
    /\ session_set[1].output_file_fh # session_set[2].output_file_fh
    /\ SameRecords(session_set[1].output_file_fh, session_set[2].output_file_fh)

\* ------------------------------------------------------------------ C11
\* what one step of run r wrote: the sessions it closed were sessions of the
\* list, are in the order of their creation, and their records were written
\* in that order after everything written before
C11_Step(r) ==
    LET old == session_set[r]
        new == NewClosed(r)
        out == NewOutput(r)
    IN  /\ Len(session_set'[r].output_file_fh) >= Len(old.output_file_fh)
        /\ SubSeq(session_set'[r].output_file_fh, 1, Len(old.output_file_fh)) = old.output_file_fh
        /\ SubSeq(session_set'[r].closed, 1, Len(old.closed)) = old.closed
        /\ Len(out) = Len(new)
        /\ \A i \in 1..Len(new) :
              /\ out[i] = Session_str(new[i])
              /\ \E k \in 1..Len(old.sessions) : old.sessions[k].sid = new[i].sid
        /\ \A i \in 1..Len(new), j \in 1..Len(new) : i < j => new[i].sid < new[j].sid

\* C11: the records of the sessions one sweep closes are written in the order
\* in which the sessions were created, the final drain writes in the same
\* order, and what an earlier step wrote stays before what a later step writes.
C11_EmissionOrder == [][\A r \in Runs : C11_Step(r)]_vars

\* the active sessions are listed in the order of their creation
C11_ListInCreationOrder ==
    \A r \in Runs : \A i \in 1..Len(session_set[r].sessions), j \in 1..Len(session_set[r].sessions) :
        i < j => session_set[r].sessions[i].sid < session_set[r].sessions[j].sid

\* two sessions closed by one sweep (the only one so far), and a third
\* session written by the drain after them
C11_Witness ==
    /\ pc = "done"
    /\ Len(log) = 4
    /\ log[1].dt = log[2].dt /\ log[3].dt = log[4].dt /\ log[2].dt < log[3].dt
    /\ log[1].ip # log[2].ip /\ log[3].ip = log[4].ip
    /\ Len(session_set[1].closed) = 3
    /\ session_set[1].closed[1].ip = log[1].ip
    /\ session_set[1].closed[2].ip = log[2].ip
    /\ session_set[1].closed[3].document_number = 2

\* ------------------------------------------------------------------ C12
\* the step just taken read a data line on which clean_row raised
Aborted == pc = "run" /\ pc' = "raised"

\* the records of a sequence of sessions, in order
RecordsOfSessions(ss) == [ i \in 1..Len(ss) |-> Session_str(ss[i]) ]

\* C12 as stated: a data line that fails to parse aborts the run, the abort
\* writes nothing, and nothing is written after it: the sessions active at the
\* abort are never written.
C12_AbortNeverDrains ==
    [][ /\ (pc = "run" /\ Len(lines') = Len(lines) + 1 /\ lines'[Len(lines')] \in BadLines
              => Aborted)
        /\ (Aborted \/ pc = "raised"
              => \A r \in Runs : session_set'[r].output_file_fh = session_set[r].output_file_fh)
      ]_vars

\* C12 amended: a data line that fails to parse aborts the run; the abort
\* itself writes nothing and removes nothing, so the records already written
\* stay; the sessions active at the abort are written after them, in list
\* order, when the SessionSet of the aborted run is deleted.
C12_AbortThenFinalize ==
    [][ /\ (pc = "run" /\ Len(lines') = Len(lines) + 1 /\ lines'[Len(lines')] \in BadLines
              => Aborted)
        /\ (Aborted => session_set' = session_set /\ log' = log)
        /\ (pc = "raised"
              => /\ pc' = "raised_del"
                 /\ \A r \in Runs :
                      /\ session_set'[r].output_file_fh
                           = session_set[r].output_file_fh \o RecordsOfSessions(session_set[r].sessions)
                      /\ session_set'[r].sessions = <<>>)
      ]_vars

\* a run aborted on its third line after the second had closed the session of
\* the first: one record written before the abort, one when the SessionSet was
\* deleted
C12_Witness ==
    /\ pc = "raised_del"
    /\ Len(lines) = 3 /\ Len(log) = 2
    /\ lines[3] \in BadLines
    /\ log[1].ip # log[2].ip
    /\ log[2].dt - log[1].dt > session_set[1].inactivity_period
    /\ session_set[1].inactivity_period > 0
    /\ Len(session_set[1].output_file_fh) = 2
    /\ session_set[1].output_file_fh[1][1] = log[1].ip
    /\ session_set[1].output_file_fh[2][1] = log[2].ip

\* ------------------------------------------------------------------ C13
\* C13: an inactivity period that is not a positive integer is rejected before
\* run begins, so no event is ever processed with a threshold <= 0.
C13_ThresholdValidated ==
    \A r \in Runs : log # <<>> => session_set[r].inactivity_period > 0

\* ------------------------------------------------------------------ C14
\* the header lacks one of the required fields
LacksField(h) == \E field \in {"ip", "date", "time"} : field \notin Range(h)

\* C14: a run on a file whose header lacks ip, date or time (an empty first
\* line included) fails at the read of the header, processes no line, and no
\* record is written before or after the failure.
C14_MissingHeaderFatal ==
    [][ LacksField(header) /\ pc # "config_error"
          => /\ (pc = "open" => pc' = "raised")
             /\ pc' \in {"raised", "raised_del"}
             /\ lines' = <<>> /\ log' = <<>>
             /\ \A r \in Runs : /\ session_set'[r].output_file_fh = <<>>
                                /\ session_set'[r].sessions = <<>>
      ]_vars

\* a run on a file with an empty first line has failed and its SessionSet was
\* deleted, nothing written
C14_Witness ==
    /\ pc = "raised_del"
    /\ header = <<"">>
    /\ lines = <<>>
    /\ session_set[1].output_file_fh = <<>>

\* ------------------------------------------------------------------ C15
\* C15: a run on a file with a valid header and no data line completes without
\* error and writes no record: the header is accepted, the end of the file
\* right after it ends the run, and the deletion of the empty SessionSet
\* writes nothing.
C15_EmptyDataWithHeader ==
    [][ ~LacksField(header)
          => /\ (pc = "open" => pc' = "run")
             /\ (pc = "run" /\ lines = <<>> /\ lines' = <<>>
                   => /\ pc' = "done"
                      /\ \A r \in Runs : /\ session_set'[r].output_file_fh = <<>>
                                         /\ session_set'[r].sessions = <<>>)
      ]_vars

\* a run on a file of a header with a fourth column and nothing else is done,
\* nothing written
C15_Witness ==
    /\ pc = "done"
    /\ header = <<"ip", "date", "time", "zone">>
    /\ lines = <<>>
    /\ session_set[1].output_file_fh = <<>>

\* ------------------------------------------------------------------ C16
ExampleLog ==
    << [ip |-> "A", dt |-> 10 * 3600],     [ip |-> "B", dt |-> 10 * 3600 + 2],
       [ip |-> "A", dt |-> 10 * 3600 + 5], [ip |-> "A", dt |-> 10 * 3600 + 20] >>

\* the three records: ip, first and last request (day, hour, minute, second),
\* duration, document count
ExampleRecordA  == << "A", <<0, 10, 0, 0>>,  <<0, 10, 0, 5>>,  6, 2 >>
ExampleRecordB  == << "B", <<0, 10, 0, 2>>,  <<0, 10, 0, 2>>,  1, 1 >>
ExampleRecordA2 == << "A", <<0, 10, 0, 20>>, <<0, 10, 0, 20>>, 1, 1 >>

\* C16: with inactivity period 10 and the requests A 10:00:00, B 10:00:02,
\* A 10:00:05, A 10:00:20 nothing is written before the fourth request; the
\* sweep of the fourth request writes the record of A (10:00:00 to 10:00:05,
\* 2 documents) and the record of B (1 second, 1 document) and leaves the new
\* session of A at 10:00:20 alone in the list; the drain writes that session
\* with 1 document, and the output is these three records.
C16_EndToEndExample ==
    \A r \in Runs :
        LET self == session_set[r]
            k    == Len(log)
        IN  self.inactivity_period = 10 /\ k <= 4 /\ log = SubSeq(ExampleLog, 1, k)
              => /\ (k < 4 /\ pc = "run" => self.output_file_fh = <<>>)
                 /\ (k = 4 /\ pc = "run"
                       => /\ Len(self.output_file_fh) = 2
                          /\ Range(self.output_file_fh) = {ExampleRecordA, ExampleRecordB}
                          /\ Len(self.sessions) = 1
                          /\ Session_str(self.sessions[1]) = ExampleRecordA2)
                 /\ (k = 4 /\ pc = "done"
                       => /\ Len(self.output_file_fh) = 3
                          /\ Range(SubSeq(self.output_file_fh, 1, 2)) = {ExampleRecordA, ExampleRecordB}
                          /\ self.output_file_fh[3] = ExampleRecordA2
                          /\ self.sessions = <<>>)

\* the run of the example is done
C16_Witness ==
    /\ pc = "done"
    /\ log = ExampleLog
    /\ session_set[1].inactivity_period = 10
    /\ Len(session_set[1].output_file_fh) = 3

\* ------------------------------------------------------------------ C17
\* the index of a SessionSet has one key per session of its list and no other,
\* and each key's value is the 0-based position of the session of that ip
InLockStep(self) ==
    /\ DOMAIN self.index = { self.sessions[i].ip : i \in 1..Len(self.sessions) }
    /\ Cardinality(DOMAIN self.index) = Len(self.sessions)
    /\ \A ip \in DOMAIN self.index :
          /\ self.index[ip] \in 0..(Len(self.sessions) - 1)
          /\ self.sessions[self.index[ip] + 1].ip = ip

\* C17: the index and the session list are in lock-step after every
\* process_row, and after the update_sessions that a row of any other
\* timestamp would run next.
C17_IndexLockStep ==
    \A r \in Runs :
        /\ InLockStep(session_set[r])
        /\ pc = "run" /\ session_set[r].current_time # None
             => \A dt \in Times :
                   dt # session_set[r].current_time[1]
                     => InLockStep(update_sessions([session_set[r] EXCEPT !.current_time = Some(dt)]))

\* a sweep removed the first session of the list and the second moved up to
\* position 0; a third was appended behind it
C17_Witness ==
    /\ pc = "run"
    /\ Len(session_set[1].closed) = 1 /\ session_set[1].closed[1].sid = 1
    /\ Len(session_set[1].sessions) = 2
    /\ session_set[1].sessions[1].sid = 2 /\ session_set[1].sessions[2].sid = 3
    /\ session_set[1].index[session_set[1].sessions[1].ip] = 0
    /\ session_set[1].index[session_set[1].sessions[2].ip] = 1

\* ------------------------------------------------------------------ C18
\* the step just taken processed the first row of the run, or a row whose
\* timestamp is the current_time of run r
NoTimestampChange(r) ==
    /\ RowTaken
    /\ \/ session_set[r].current_time = None
       \/ session_set[r].current_time[1] = LastRow.dt

\* what such a step does in run r: nothing is written or closed; a client with
\* a session has it touched where it is, a client without one gets a new
\* session at the end of the list; every other session stays as and where it was
C18_Step(r) ==
    LET old == session_set[r]
        new == session_set'[r]
        row == LastRow
        has == \E i \in 1..Len(old.sessions) : old.sessions[i].ip = row.ip
    IN  /\ new.output_file_fh = old.output_file_fh
        /\ new.closed = old.closed
        /\ Len(new.sessions) = Len(old.sessions) + (IF has THEN 0 ELSE 1)
        /\ \A i \in 1..Len(old.sessions) :
              IF old.sessions[i].ip = row.ip
              THEN /\ new.sessions[i].sid = old.sessions[i].sid
                   /\ new.sessions[i].time_first = old.sessions[i].time_first
                   /\ new.sessions[i].time_last = row.dt
                   /\ new.sessions[i].document_number = old.sessions[i].document_number + 1
              ELSE new.sessions[i] = old.sessions[i]
        /\ ~has => LET s == new.sessions[Len(new.sessions)]
                   IN  /\ s.ip = row.ip
                       /\ s.time_first = row.dt /\ s.time_last = row.dt
                       /\ s.document_number = 1

\* C18: processing the first row of a run, or a row whose timestamp equals
\* current_time, writes no record and removes no session; it only creates or
\* touches the session of the row's client and leaves every other session
\* unchanged.
C18_NoSweepWithoutTimestampChange ==
    [][\A r \in Runs : NoTimestampChange(r) => C18_Step(r)]_vars

\* three rows of one timestamp: the third touched its client's session next to
\* the untouched session of the other client
C18_Witness ==
    /\ pc = "run"
    /\ Len(log) = 3
    /\ log[1].ip # log[2].ip /\ log[3].ip = log[1].ip
    /\ log[1].dt = log[2].dt /\ log[2].dt = log[3].dt
    /\ Len(session_set[1].sessions) = 2
    /\ session_set[1].sessions[1].document_number = 2
    /\ session_set[1].sessions[2].document_number = 1
    /\ session_set[1].closed = <<>>

\* ------------------------------------------------------------------ C19
\* current_time of run r is unset before the first row and the timestamp of
\* the last row processed after it
C19_TracksLastRow(r) ==
    IF log = <<>>
    THEN session_set[r].current_time = None
    ELSE session_set[r].current_time = Some(log[Len(log)].dt)

\* C19: current_time is unset before the first row, equals the timestamp of
\* the last row after every row processed, and over a log in non-decreasing
\* time order never decreases.
C19_WatermarkTracksLatest ==
    /\ [](\A r \in Runs : C19_TracksLastRow(r))
    /\ [][\A r \in Runs :
             Sorted(log') /\ session_set[r].current_time # None
               => session_set'[r].current_time[1] >= session_set[r].current_time[1]]_vars

\* current_time has moved from the first row's timestamp to the later
\* timestamp of the second row
C19_Witness ==
    /\ pc = "run"
    /\ Len(log) = 2
    /\ log[1].dt < log[2].dt
    /\ session_set[1].current_time = Some(log[2].dt)

\* ------------------------------------------------------------------ C20
\* C20: over a log in non-decreasing time order and under a positive
\* inactivity period, after every row processed each active session has
\* time_first <= time_last <= current_time and has been idle for no more than
\* the inactivity period.
C20_NoExpiredSessionSurvives ==
    \A r \in Runs :
        LET self == session_set[r]
        IN  pc = "run" /\ log # <<>> /\ Sorted(log) /\ self.inactivity_period > 0
              => \A i \in 1..Len(self.sessions) :
                    LET s == self.sessions[i]
                    IN  /\ s.time_first <= s.time_last
                        /\ s.time_last <= self.current_time[1]
                        /\ self.current_time[1] - s.time_last <= self.inactivity_period

\* over a sorted log a sweep has closed one session and kept another that has
\* been idle for exactly the inactivity period
C20_Witness ==
    /\ pc = "run"
    /\ Sorted(log)
    /\ session_set[1].inactivity_period > 0
    /\ session_set[1].closed # <<>>
    /\ \E i \in 1..Len(session_set[1].sessions) :
          session_set[1].current_time[1] - session_set[1].sessions[i].time_last
              = session_set[1].inactivity_period

\* ------------------------------------------------------------------ C21
\* the step just taken read, under header h, the line of a request of ip at dt
ReadLineOf(h, ip, dt) ==
    /\ pc = "run"
    /\ Len(lines') = Len(lines) + 1
    /\ lines'[Len(lines')] = LineFor(h, ip, dt)

\* C21: under every header that names ip, date and time, in whatever columns,
\* the line of a request of ip at dt yields the event of ip at dt, which is
\* processed: the fields are taken from the columns the header names.
C21_HeaderDrivenColumns ==
    [][ ~LacksField(header)
          => \A ip \in Clients, dt \in Times :
                ReadLineOf(header, ip, dt)
                  => pc' = "run" /\ log' = Append(log, [ip |-> ip, dt |-> dt])
      ]_vars

\* the same under the headers whose first three columns are ip, date, time
C21_LeadingColumns ==
    [][ Len(header) >= 3 /\ SubSeq(header, 1, 3) = extracted_fields
          => \A ip \in Clients, dt \in Times :
                ReadLineOf(header, ip, dt)
                  => pc' = "run" /\ log' = Append(log, [ip |-> ip, dt |-> dt])
      ]_vars

====
